---- MODULE Spec2Model ----
(***************************************************************************)
(* GLSL program objects of the Spring engine (rts/Rendering/Shaders/       *)
(* Shader.cpp) and the two tree programs that CAdvTreeDrawer drives:       *)
(* lazy reload, the process-wide program cache, the per-program table of   *)
(* uniform states, and the GL objects behind them.                         *)
(*                                                                         *)
(* Strings are abstracted to small naturals (0 is the empty string), GL    *)
(* program names are handed out in increasing order, and an assert() that  *)
(* fails stops the process (the variable aborted).                         *)
(***************************************************************************)
EXTENDS Integers, Sequences, FiniteSets, TLC

\* ------------------------------------------------------------------ bounds
MaxHandle == 3         \* GL program names available when one program is driven
MaxHandleCache == 4    \* GL program names available when one program is relinked under a changing option
MaxHandleShared == 4   \* GL program names available when both programs are driven
MaxHandleTwins == 5    \* GL program names available to two programs of the same content
MaxHandleDrawer == 5   \* GL program names available to the tree drawer's three programs
HashMod == 8           \* hashes are kept modulo HashMod

\* --------------------------------------------------------------- constants
HashSeed == 127      \* IShaderObject::GetHash starts from 127
NotFound == -1       \* GL_INVALID_INDEX as an int location

Progs == {"tpb", "tps"}
Names == {"color"}
Values == {0, 1}
Uninit == 2            \* the sentinel an uninitialised UniformState holds
Handles == 1 .. (MaxHandleShared + MaxHandleTwins + MaxHandleDrawer)
FlagVals == {0, 1}
Sources == {"TreeVertProg", "BrokenProg"}
TexUnits == {0}
MaxLen == 3
MaxTrees == 2
MaxShaders == 2
MaxFalling == 2
MaxLocs == 2           \* names a program registers through SetUniformLocation
MaxLog == 2            \* entries a program's log takes from direct Validate calls
\* width of size_t, reduced; any modulus above the text lengths wraps alike
SizeMod == 65536
\* shader-object descriptors, including the name of a file that is not there
SrcData == Sources \cup {"MissingProg", "void main() {}"}

VARIABLES po, gl, cache, useShaderCache, aborted, cso, drawer

vars == <<po, gl, cache, useShaderCache, aborted, cso, drawer>>

\* ------------------------------------------------------------ GL, as used
\* glCreateProgram: names are handed out in increasing order and never reused;
\* the model stops where the next one would exceed g.max
glCreateProgram(g) ==
    IF g.next <= g.max
    THEN [id |-> g.next, gl |-> [g EXCEPT !.next = @ + 1]]
    ELSE [id |-> 0, gl |-> [g EXCEPT !.full = TRUE]]

glIsProgram(g, h) == h \in 1 .. (g.next - 1) /\ h \notin g.deleted

\* glLinkProgram + GL_LINK_STATUS: a linked program starts with zeroed uniforms
glLinkProgram(g, h, linkOK) ==
    IF linkOK THEN [g EXCEPT !.linked = @ \cup {h}, !.val[h] = 0] ELSE g

\* glslIsValid on a program name: asserts that obj is a GL object, then
\* answers GL_LINK_STATUS
glslIsValid(g, h) == [ab |-> ~glIsProgram(g, h), ok |-> h \in g.linked]

\* glslGetLog on a program name: asserts that obj is a GL object, then
\* returns its info log
glslGetLog(g, h, infoLog) == [ab |-> ~glIsProgram(g, h), log |-> infoLog]

\* glDeleteProgram: 0 and unknown names are ignored
glDeleteProgram(g, h) ==
    IF glIsProgram(g, h)
    THEN [g EXCEPT !.deleted = @ \cup {h}, !.linked = @ \ {h}, !.val[h] = 0,
                   !.cur = IF @ = h THEN 0 ELSE @]
    ELSE g

\* glUseProgram: an unlinked or deleted program leaves the current one in place
glUseProgram(g, h) ==
    IF h = 0 \/ (glIsProgram(g, h) /\ h \in g.linked) THEN [g EXCEPT !.cur = h] ELSE g

\* the one active uniform of every linked tree program is "color"; its
\* location depends on the program it was linked into
glGetUniformLocation(g, h, name) ==
    IF glIsProgram(g, h) /\ h \in g.linked /\ name = "color" THEN h % 2 ELSE NotFound

\* glUniform*: writes the current program's uniform at loc, if there is one
glUniform(g, loc, v) ==
    IF g.cur # 0 /\ loc # NotFound /\ glGetUniformLocation(g, g.cur, "color") = loc
    THEN [g EXCEPT !.val[g.cur] = v]
    ELSE g

\* ------------------------------------------------------------------ hashes
RECURSIVE BitXor(_, _)
BitXor(a, b) ==
    IF a = 0 THEN b
    ELSE IF b = 0 THEN a
    ELSE ((a + b) % 2) + 2 * BitXor(a \div 2, b \div 2)

HsiehHash(data, seed) == (seed * 3 + data * 5 + 1) % HashMod

\* descriptors that contain "void main()": the shader text itself
InlineSources == {"void main() {}"}

\* CFileHandler: the text of shaders/<srcData>; a file that does not exist
\* yields the empty text
FileText(srcData) ==
    IF srcData \in {"TreeVertProg", "TreeFragProg"} THEN "tree"
    ELSE IF srcData = "BrokenProg" THEN "broken"
    ELSE ""

GetShaderSource(srcData) ==
    IF srcData \in InlineSources THEN srcData ELSE FileText(srcData)

\* the bytes of a shader text as they enter the hash
TextCode(text) ==
    IF text = "" THEN 0
    ELSE IF text = "tree" THEN 1
    ELSE IF text = "broken" THEN 2
    ELSE 3

\* glCompileShader + GL_COMPILE_STATUS
CompileOK(text) == text \in {"tree"} \cup InlineSources

\* ------------------------------------------------------------ shader object
\* shaderDefines of the tree drawer, as they enter the hash
TreeBasic == 1         \* "#define TREE_BASIC\n"
TreeShadow == 2        \* "#define TREE_SHADOW\n"
Defines == {TreeBasic, TreeShadow}
VertSources == {"TreeVertProg"}
FragSources == {"TreeFragProg"}

NewShaderObject(srcData, rawDefStrs) ==
    [srcData |-> srcData, srcText |-> "", modDefStrs |-> 0, rawDefStrs |-> rawDefStrs]

GetHash(so) ==
    HsiehHash(so.rawDefStrs, HsiehHash(so.modDefStrs, HsiehHash(TextCode(so.srcText), HashSeed % HashMod)))

ReloadFromTextOrFile(so) == [so EXCEPT !.srcText = GetShaderSource(so.srcData)]

SetDefinitions(so, defs) == [so EXCEPT !.modDefStrs = defs]

\* ------------------------------------------------- shader text and #version
\* A text is a sequence of characters; "V" stands for the substring
\* "#version ", "N" for the line feed, "1" and "2" for other characters.
Chars == {"V", "1", "2", "N"}

RECURSIVE TextsUpTo(_)
TextsUpTo(n) ==
    IF n = 0 THEN {<<>>}
    ELSE LET T == TextsUpTo(n - 1)
         IN  T \cup {Append(t, c) : t \in {u \in T : Len(u) = n - 1}, c \in Chars}

RawDefs == {<<>>, <<"V", "1">>}

npos == SizeMod - 1

\* std::string::find, offsets from 0
find(str, c, from) ==
    LET hits == {i \in from .. Len(str) - 1 : str[i + 1] = c}
    IN  IF hits = {} THEN npos ELSE CHOOSE i \in hits : \A j \in hits : i <= j

\* characters pos .. pos + n - 1 of str, n clamped to what is left
substr(str, pos, n) ==
    SubSeq(str, pos + 1, IF n > Len(str) - pos THEN Len(str) ELSE pos + n)

erase(str, pos, n) ==
    SubSeq(str, 1, pos)
        \o SubSeq(str, (IF n > Len(str) - pos THEN Len(str) ELSE pos + n) + 1, Len(str))

ExtractVersionDirective(src, version) ==
    LET pos == find(src, "V", 0)
        eol == (find(src, "N", pos) + 1) % SizeMod
        n == (eol - pos) % SizeMod
    IN  IF pos # npos
        THEN [src |-> erase(src, pos, n), version |-> substr(src, pos, n), found |-> TRUE]
        ELSE [src |-> src, version |-> version, found |-> FALSE]

EnsureEndsWith(str, c) ==
    IF str # <<>> /\ str[Len(str)] = c THEN str ELSE Append(str, c)

\* the strings handed to glShaderSource by CreateAndCompileShaderObject
ShaderSources(srcText, rawDefStrs, modDefStrs) ==
    LET e1 == ExtractVersionDirective(srcText, <<>>)
        e2 == ExtractVersionDirective(rawDefStrs \o <<"N">> \o modDefStrs, e1.version)
    IN  [versionStr |-> IF e2.version # <<>> THEN EnsureEndsWith(e2.version, "N") ELSE <<>>,
         defFlags |-> IF e2.src # <<>> THEN EnsureEndsWith(e2.src, "N") ELSE <<>>,
         sourceStr |-> e1.src]

\* the seven strings of the sources array, in the order glShaderSource gets
\* them; "//V", "//F", "//S" stand for the three comment lines and "L" for
\* the line "#line 1"
SourcesArray(ss) ==
    <<"//V">> \o ss.versionStr \o <<"//F">> \o ss.defFlags \o <<"//S", "L">> \o ss.sourceStr

NoShaderText ==
    [srcText |-> <<>>, rawDefStrs |-> <<>>, modDefStrs |-> <<>>, compiled |-> FALSE,
     sources |-> [versionStr |-> <<>>, defFlags |-> <<>>, sourceStr |-> <<>>],
     glsl |-> <<>>]

\* the tree drawer before LoadTreeShaders
NoDrawer ==
    [op |-> "none", calls |-> <<>>, enabled |-> {}, shadersLoaded |-> FALSE,
     shadowsSupported |-> FALSE, destroyed |-> FALSE, fallingTrees |-> <<>>]

\* ------------------------------------------------------------ shader flags
NewFlags == [val |-> 0, hashSet |-> FALSE, updated |-> TRUE]
FlagsString(f) == f.val + 1
FlagsHash(f) == HsiehHash(FlagsString(f), 0)
FlagsUpdateHash(f) == [f EXCEPT !.hashSet = TRUE, !.updated = FALSE]

\* ------------------------------------------------------------ uniform state
NoState == [has |-> FALSE, loc |-> NotFound, val |-> Uninit]
NewState(loc) == [has |-> TRUE, loc |-> loc, val |-> Uninit]

\* UniformState::Set: the cached value, and whether a GPU write is required
UniformStateSet(us, v) ==
    IF us.val = v THEN [us |-> us, write |-> FALSE]
    ELSE [us |-> [us EXCEPT !.val = v], write |-> us.loc # NotFound]

\* ------------------------------------------------------------ program object
NewProgram(h) ==
    [glid |-> h, hash |-> 0, valid |-> FALSE, bound |-> FALSE, shaderFlags |-> NewFlags,
     shaderObjs |-> <<>>, uniformStates |-> [n \in Names |-> NoState],
     uniformLocs |-> <<>>, luaTextures |-> {}, log |-> <<>>]

\* what one call did: Reload runs, glCompileShader and glLinkProgram calls,
\* glUniform* calls, and the hash the cache was asked for
NoTrace ==
    [reloads |-> 0, compiles |-> 0, links |-> 0, writes |-> 0, consulted |-> FALSE,
     lookup |-> 0, attached |-> <<>>]

\* ------------------------------------------------------------ program cache
\* ShaderCache::Find: the handle registered under hc, or 0
Find(c, hc) ==
    IF \E e \in c : e.hash = hc THEN (CHOOSE e \in c : e.hash = hc).id ELSE 0

\* ShaderCache::Push: registers id under hc unless hc already has an entry
Push(c, hc, id) ==
    IF \E e \in c : e.hash = hc
    THEN [ok |-> FALSE, cache |-> c]
    ELSE [ok |-> TRUE, cache |-> c \cup {[hash |-> hc, id |-> id]}]

\* ------------------------------------------------------- reload, step by step
\* faulty variants of ClearUniformLocations: one empties the table, one leaves
\* the locations as they are
ClearUniformStates(o) == [o EXCEPT !.uniformStates = [n \in Names |-> NoState]]

KeepUniformLocations(o) == o

ClearUniformLocations(o) ==
    [o EXCEPT !.uniformStates =
        [n \in Names |-> IF @[n].has THEN [@[n] EXCEPT !.loc = NotFound] ELSE @[n]]]

SetShaderDefinitions(o, defs) ==
    [o EXCEPT !.shaderObjs = [i \in DOMAIN @ |-> SetDefinitions(@[i], defs)]]

ReloadShaderObjects(o) ==
    [o EXCEPT !.shaderObjs = [i \in DOMAIN @ |-> ReloadFromTextOrFile(@[i])]]

RECURSIVE XorHashes(_, _, _)
XorHashes(sos, i, h) ==
    IF i > Len(sos) THEN h ELSE XorHashes(sos, i + 1, BitXor(h, GetHash(sos[i])))

\* faulty variant: the hash also depends on the program's GL name
RecalculateShaderHashWithHandle(o) ==
    [o EXCEPT !.hash = XorHashes(o.shaderObjs, 1, BitXor(FlagsHash(o.shaderFlags), o.glid)),
              !.shaderFlags = FlagsUpdateHash(@)]

\* faulty variant: the hash is computed without ShaderFlags::UpdateHash
\* recording that the flags have been hashed
RecalculateShaderHashOnly(o) ==
    [o EXCEPT !.hash = XorHashes(o.shaderObjs, 1, FlagsHash(o.shaderFlags))]

RecalculateShaderHash(o) ==
    [o EXCEPT !.hash = XorHashes(o.shaderObjs, 1, FlagsHash(o.shaderFlags)),
              !.shaderFlags = FlagsUpdateHash(@)]

\* faulty variant: the hash is taken before the definitions and the source
\* text are brought up to date
ReloadStateHashFirst(o, reloadShaderObjs) ==
    LET o1 == RecalculateShaderHash(ClearUniformLocations([o EXCEPT !.log = <<>>]))
        o2 == SetShaderDefinitions(o1, FlagsString(o1.shaderFlags))
        o3 == IF reloadShaderObjs THEN ReloadShaderObjects(o2) ELSE o2
    IN  [o |-> o3, ok |-> Len(o3.shaderObjs) > 0]

\* faulty variant: an empty program is not reported
ReloadStateNeverEmpty(o, reloadShaderObjs) ==
    LET o1 == ClearUniformLocations([o EXCEPT !.log = <<>>])
        o2 == SetShaderDefinitions(o1, FlagsString(o1.shaderFlags))
        o3 == IF reloadShaderObjs THEN ReloadShaderObjects(o2) ELSE o2
    IN  [o |-> RecalculateShaderHash(o3), ok |-> TRUE]

ReloadState(o, reloadShaderObjs) ==
    LET o1 == ClearUniformLocations([o EXCEPT !.log = <<>>])
        o2 == SetShaderDefinitions(o1, FlagsString(o1.shaderFlags))
        o3 == IF reloadShaderObjs THEN ReloadShaderObjects(o2) ELSE o2
        o4 == RecalculateShaderHash(o3)
    IN  [o |-> o4, ok |-> Len(o4.shaderObjs) > 0]

\* faulty variant of CompileShaderObjects: the loop is left at the first shader
\* that fails to compile
RECURSIVE CompileShaderObjectsUntilFailure(_, _, _)
CompileShaderObjectsUntilFailure(sos, i, acc) ==
    IF i > Len(sos) \/ acc.ab \/ ~acc.valid THEN acc
    ELSE IF sos[i].srcText = ""
         THEN [acc EXCEPT !.ab = TRUE]
         ELSE CompileShaderObjectsUntilFailure(sos, i + 1,
                [acc EXCEPT !.compiles = @ + 1,
                            !.valid = @ /\ CompileOK(sos[i].srcText),
                            !.log = IF CompileOK(sos[i].srcText) THEN @
                                    ELSE Append(@, "compile"),
                            !.attached = IF CompileOK(sos[i].srcText) THEN Append(@, i)
                                         ELSE @])

\* GLSLShaderObject::CreateAndCompileShaderObject for shaderObjs[i..], in order:
\* acc = [ab, valid, log, compiles, attached]; attached lists the shader
\* objects handed to glAttachShader
RECURSIVE CompileShaderObjects(_, _, _)
CompileShaderObjects(sos, i, acc) ==
    IF i > Len(sos) \/ acc.ab THEN acc
    ELSE IF sos[i].srcText = ""
         THEN [acc EXCEPT !.ab = TRUE]
         ELSE CompileShaderObjects(sos, i + 1,
                [acc EXCEPT !.compiles = @ + 1,
                            !.valid = @ /\ CompileOK(sos[i].srcText),
                            !.log = IF CompileOK(sos[i].srcText) THEN @
                                    ELSE Append(@, "compile"),
                            !.attached = IF CompileOK(sos[i].srcText) THEN Append(@, i)
                                         ELSE @])

CreateAndLink(w, env) ==
    IF w.o.glid # 0 THEN [w |-> [w EXCEPT !.ab = TRUE], ok |-> FALSE]
    ELSE
    LET cp == glCreateProgram(w.gl)
        w1 == [w EXCEPT !.gl = cp.gl, !.o.glid = cp.id]
    IN  IF cp.id = 0 THEN [w |-> w1, ok |-> FALSE]
        ELSE
        LET cs == CompileShaderObjects(w.o.shaderObjs, 1,
                    [ab |-> FALSE, valid |-> TRUE, log |-> w.o.log, compiles |-> 0,
                     attached |-> <<>>])
            w2 == [w1 EXCEPT !.o.log = cs.log, !.tr.compiles = @ + cs.compiles,
                             !.tr.attached = cs.attached,
                             !.ab = cs.ab]
        IN  IF cs.ab \/ ~cs.valid THEN [w |-> w2, ok |-> FALSE]
            ELSE
            LET g3 == glLinkProgram(w2.gl, cp.id, env.linkOK)
                w3 == [w2 EXCEPT !.gl = g3, !.tr.links = @ + 1,
                                 !.o.log = IF env.linkOK THEN @ ELSE Append(@, "link")]
                iv == glslIsValid(g3, cp.id)
            IN  [w |-> [w3 EXCEPT !.ab = iv.ab], ok |-> iv.ok]

\* glValidateProgram + GL_VALIDATE_STATUS, then the validation log appended
Validate(w, validated) ==
    LET lg == glslGetLog(w.gl, w.o.glid, IF validated THEN <<>> ELSE <<"validate">>)
    IN  IF lg.ab THEN [w |-> [w EXCEPT !.ab = TRUE], ok |-> FALSE]
        ELSE [w |-> [w EXCEPT !.o.log = @ \o lg.log], ok |-> validated]

\* GLSLCopyState: every state of the table is resolved against tgt; a cached
\* value that differs from what tgt holds is written, and a uniform without a
\* cached value takes over what src holds
GLSLCopyState(w, tgt, src) ==
    LET loc == glGetUniformLocation(w.gl, tgt, "color")
        us == w.o.uniformStates
        us1 == [n \in Names |->
                  IF us[n].has
                  THEN [us[n] EXCEPT !.loc = glGetUniformLocation(w.gl, tgt, n)]
                  ELSE us[n]]
        cached == us["color"].val
        old == IF glGetUniformLocation(w.gl, src, "color") # NotFound
               THEN w.gl.val[src] ELSE w.gl.val[tgt]
        want == IF cached # Uninit THEN cached ELSE old
        wr == loc # NotFound /\ w.gl.val[tgt] # want
    IN  [w EXCEPT !.o.uniformStates = us1,
                  !.gl.val[tgt] = IF wr THEN want ELSE @,
                  !.tr.writes = IF wr THEN @ + 1 ELSE @]

\* ValidateAndCopyUniforms from "if (isValid)" on; vr is what Validate, or the
\* valid flag, gave
CopyUniformsIfValid(vr, tgtProgID, srcProgID) ==
    IF vr.w.ab THEN vr
    ELSE IF vr.ok
    THEN [w |-> GLSLCopyState(vr.w, tgtProgID, srcProgID), ok |-> TRUE]
    ELSE [w |-> vr.w, ok |-> FALSE]

ValidateAndCopyUniforms(w, tgtProgID, srcProgID, validate, validated) ==
    CHOOSE r \in {CopyUniformsIfValid(vr, tgtProgID, srcProgID) :
                     vr \in {IF validate THEN Validate(w, validated)
                              ELSE [w |-> w, ok |-> w.o.valid]}} : TRUE

\* faulty variant: the cache is read whatever the option says
CachedProgIgnoresSwitch(w, useCache, hc) == Find(w.cache, hc)

CachedProg(w, useCache, hc) == IF useCache THEN Find(w.cache, hc) ELSE 0

UpdateProg(w, useCache, hc, env) ==
    LET id == CachedProg(w, useCache, hc)
        w1 == [w EXCEPT !.o.glid = id, !.tr.consulted = useCache,
                        !.tr.lookup = IF useCache THEN hc ELSE 0]
    IN  IF id # 0 THEN [w |-> w1, ok |-> TRUE] ELSE CreateAndLink(w1, env)

\* Reload after "valid = ...": vc is the state that assignment was evaluated
\* in, ok its value; w is the state Reload was called in
ReloadCacheOrDelete(w, vc, ok) ==
    LET oldGlid == w.o.glid
        oldHash == w.o.hash
        useCache == w.o.valid /\ w.cfg
        w3 == [vc EXCEPT !.o.valid = ok]
        ps == Push(vc.cache, oldHash, oldGlid)
    IN  IF vc.ab THEN vc
        ELSE IF useCache /\ ps.ok
        THEN [w3 EXCEPT !.cache = ps.cache]
        ELSE IF vc.o.hash = oldHash THEN w3
        ELSE [w3 EXCEPT !.gl = glDeleteProgram(@, oldGlid)]

\* Reload after UpdateProg(hash) gave up
ReloadValidate(w, up, validate, env) ==
    IF up.w.ab THEN up.w
    ELSE CHOOSE r \in {ReloadCacheOrDelete(w, vc, up.ok) :
                          vc \in {IF up.ok
                                   THEN ValidateAndCopyUniforms(up.w, up.w.o.glid,
                                            IF w.o.valid THEN w.o.glid ELSE 0,
                                            validate, env.validated).w
                                   ELSE up.w}} : TRUE

Reload(w, force, validate, env) ==
    LET oldGlid == w.o.glid
        isValid == w.o.valid
        useCache == isValid /\ w.cfg
        rs == ReloadState(w.o, force \/ ~isValid \/ oldGlid = 0)
        w0 == [w EXCEPT !.o = rs.o, !.tr.reloads = @ + 1]
    IN  IF ~rs.ok THEN [w0 EXCEPT !.o.valid = FALSE]
        ELSE CHOOSE r \in {ReloadValidate(w, up, validate, env) :
                              up \in {UpdateProg(w0, useCache, w0.o.hash, env)}} : TRUE

MaybeReload(w, validate, env) ==
    IF w.o.shaderFlags.hashSet /\ ~w.o.shaderFlags.updated THEN w
    ELSE Reload(w, ~w.o.shaderFlags.hashSet, validate, env)

\* ------------------------------------------------------------------- uniforms
GetUniformLoc(w, name) == glGetUniformLocation(w.gl, w.o.glid, name)

GetNewUniformState(w, name) ==
    [w EXCEPT !.o.uniformStates[name] =
        [(IF @.has THEN @ ELSE NewState(NotFound)) EXCEPT !.loc = GetUniformLoc(w, name)]]

GetUniformState(w, name) ==
    IF w.o.uniformStates[name].has THEN w ELSE GetNewUniformState(w, name)

\* faulty variants of SetUniform: one ignores what UniformState::Set answers,
\* one lacks assert(IsBound())
SetUniformAlwaysWrites(w, name, v) ==
    IF ~w.o.bound THEN [w EXCEPT !.ab = TRUE]
    ELSE LET r == UniformStateSet(w.o.uniformStates[name], v)
         IN  [w EXCEPT !.o.uniformStates[name] = r.us,
                       !.gl = glUniform(@, r.us.loc, v),
                       !.tr.writes = @ + 1]

SetUniformNoAssert(w, name, v) ==
    LET r == UniformStateSet(w.o.uniformStates[name], v)
    IN  IF r.write
        THEN [w EXCEPT !.o.uniformStates[name] = r.us,
                       !.gl = glUniform(@, r.us.loc, v),
                       !.tr.writes = @ + 1]
        ELSE [w EXCEPT !.o.uniformStates[name] = r.us]

\* SetUniform(UniformState*, ...): every arity and type has this one shape
SetUniform(w, name, v) ==
    IF ~w.o.bound THEN [w EXCEPT !.ab = TRUE]
    ELSE LET r == UniformStateSet(w.o.uniformStates[name], v)
         IN  IF r.write
             THEN [w EXCEPT !.o.uniformStates[name] = r.us,
                            !.gl = glUniform(@, r.us.loc, v),
                            !.tr.writes = @ + 1]
             ELSE [w EXCEPT !.o.uniformStates[name] = r.us]

\* SetUniform1i(idx, ...) .. SetUniformMatrix4fv(idx, ...); idx counts from 0
SetUniform1i(w, idx, v) ==
    IF ~w.o.bound THEN [w EXCEPT !.ab = TRUE]
    ELSE LET name == w.o.uniformLocs[idx + 1]
             r == UniformStateSet(w.o.uniformStates[name], v)
         IN  IF ~w.o.uniformStates[name].has THEN w
             ELSE IF r.write
             THEN [w EXCEPT !.o.uniformStates[name] = r.us,
                            !.gl = glUniform(@, r.us.loc, v),
                            !.tr.writes = @ + 1]
             ELSE [w EXCEPT !.o.uniformStates[name] = r.us]

SetUniformLocation(w, name) ==
    GetUniformState([w EXCEPT !.o.uniformLocs = Append(@, name)], name)

\* ------------------------------------------------------- enable, link, release
IProgramObjectEnable(o) == [o EXCEPT !.bound = TRUE]
IProgramObjectDisable(o) == [o EXCEPT !.bound = FALSE]

\* faulty variant: the program is made current and marked bound before the
\* lazy reload
EnableBeforeReload(w, env) ==
    MaybeReload([w EXCEPT !.gl = glUseProgram(@, w.o.glid), !.o = IProgramObjectEnable(@)],
                TRUE, env)

\* Enable after MaybeReload(true) gave w1
UseProgram(w1) ==
    IF w1.ab THEN w1
    ELSE [w1 EXCEPT !.gl = glUseProgram(@, w1.o.glid), !.o = IProgramObjectEnable(@)]

Enable(w, env) ==
    CHOOSE e \in {UseProgram(w1) : w1 \in {MaybeReload(w, TRUE, env)}} : TRUE

Disable(w) == [w EXCEPT !.gl = glUseProgram(@, 0), !.o = IProgramObjectDisable(@)]

\* Link after MaybeReload(false) gave w1
AssertIsProgram(w1) ==
    IF w1.ab THEN w1 ELSE [w1 EXCEPT !.ab = ~glIsProgram(w1.gl, w1.o.glid)]

Link(w, env) ==
    CHOOSE l \in {AssertIsProgram(w1) : w1 \in {MaybeReload(w, FALSE, env)}} : TRUE

IProgramObjectRelease(o) ==
    [o EXCEPT !.glid = 0, !.hash = 0, !.valid = FALSE, !.bound = FALSE,
              !.uniformStates = [n \in Names |-> NoState],
              !.shaderObjs = <<>>, !.luaTextures = {}, !.log = <<>>]

\* faulty variant: the GL program is not deleted
ReleaseKeepsProgram(w) ==
    [w EXCEPT !.o = [IProgramObjectRelease(@) EXCEPT !.shaderFlags = NewFlags]]

Release(w) ==
    LET oldGlid == w.o.glid
    IN  [w EXCEPT !.o = [IProgramObjectRelease(@) EXCEPT !.shaderFlags = NewFlags],
                  !.gl = glDeleteProgram(@, oldGlid)]

\* IProgramObject::AddTextureBinding; parsed is what ParseTextureImage answers
\* for the texture name
AddTextureBinding(o, texUnit, parsed) ==
    IF ~parsed THEN o ELSE [o EXCEPT !.luaTextures = @ \cup {texUnit}]

AttachShaderObject(o, so) == [o EXCEPT !.shaderObjs = Append(@, so)]

SetFlag(o, f) == [o EXCEPT !.shaderFlags.val = f, !.shaderFlags.updated = TRUE]

\* ---------------------------------------------------------------- the machine
Envs(validate) ==
    [linkOK : BOOLEAN, validated : IF validate THEN BOOLEAN ELSE {TRUE}]

World(p) ==
    [o |-> po[p], gl |-> gl, cache |-> cache, cfg |-> useShaderCache,
     tr |-> NoTrace, ab |-> FALSE]

CommitProgram(p, w) ==
    /\ ~w.gl.full
    /\ po' = [po EXCEPT ![p] = w.o]
    /\ gl' = w.gl
    /\ cache' = w.cache
    /\ aborted' = w.ab
    /\ UNCHANGED <<useShaderCache, cso>>

Commit(p, w) == CommitProgram(p, w) /\ UNCHANGED drawer

\* the program objects of progs constructed, each constructor having called
\* glCreateProgram
InitPrograms(progs, max) ==
    /\ po = [p \in progs |-> NewProgram(IF p = "tpb" THEN 1 ELSE Cardinality(progs))]
    /\ gl = [next |-> Cardinality(progs) + 1, max |-> max, full |-> FALSE,
             linked |-> {}, deleted |-> {}, val |-> [h \in Handles |-> 0], cur |-> 0]
    /\ cache = {}
    /\ useShaderCache \in BOOLEAN
    /\ aborted = FALSE

InitWith(progs, max) ==
    InitPrograms(progs, max) /\ cso = NoShaderText /\ drawer = NoDrawer

Init == InitWith({"tpb"}, MaxHandle)

InitShared == InitWith(Progs, MaxHandleShared)

InitTwins == InitWith(Progs, MaxHandleTwins)

InitCache == InitWith({"tpb"}, MaxHandleCache)

DoAttach(p, src, defs) ==
    /\ ~aborted
    /\ po[p].shaderObjs = <<>>
    /\ Commit(p, [World(p) EXCEPT !.o = AttachShaderObject(@, NewShaderObject(src, defs))])

\* a further shader object is attached
DoAttachNext(p, src, defs) ==
    /\ ~aborted
    /\ Len(po[p].shaderObjs) < MaxShaders
    /\ Commit(p, [World(p) EXCEPT !.o = AttachShaderObject(@, NewShaderObject(src, defs))])

DoSetFlag(p, f) ==
    /\ ~aborted
    /\ f # po[p].shaderFlags.val
    /\ Commit(p, [World(p) EXCEPT !.o = SetFlag(@, f)])

DoEnable(p, env) == ~aborted /\ Commit(p, Enable(World(p), env))

DoDisable(p) == ~aborted /\ Commit(p, Disable(World(p)))

DoLink(p, env) == ~aborted /\ Commit(p, Link(World(p), env))

DoReload(p, force, validate, env) ==
    ~aborted /\ Commit(p, Reload(World(p), force, validate, env))

DoRelease(p) == ~aborted /\ Commit(p, Release(World(p)))

\* GLSLProgramObject::Validate called by the owner of the program
DoValidate(p, validated) ==
    /\ ~aborted
    /\ Len(po[p].log) < MaxLog
    /\ Commit(p, Validate(World(p), validated).w)

DoGetUniformLocation(p, n) ==
    ~aborted /\ Commit(p, GetUniformState(World(p), n))

DoSetUniformLocation(p, n) ==
    /\ ~aborted
    /\ Len(po[p].uniformLocs) < MaxLocs
    /\ Commit(p, SetUniformLocation(World(p), n))

DoSetUniform1i(p, idx, v) == ~aborted /\ Commit(p, SetUniform1i(World(p), idx, v))

DoSetUniform(p, n, v) ==
    ~aborted /\ Commit(p, SetUniform(GetUniformState(World(p), n), n, v))

DoAddTextureBinding(p, texUnit, parsed) ==
    /\ ~aborted
    /\ Commit(p, [World(p) EXCEPT !.o = AddTextureBinding(@, texUnit, parsed)])

\* GLSLShaderObject::CreateAndCompileShaderObject on the shader text
DoCreateAndCompileShaderObject ==
    /\ ~aborted
    /\ ~cso.compiled
    /\ IF cso.srcText = <<>>
       THEN aborted' = TRUE /\ UNCHANGED cso
       ELSE /\ cso' = [cso EXCEPT !.compiled = TRUE,
                                  !.sources = ShaderSources(cso.srcText, cso.rawDefStrs,
                                                            cso.modDefStrs),
                                  !.glsl = SourcesArray(ShaderSources(cso.srcText,
                                               cso.rawDefStrs, cso.modDefStrs))]
            /\ UNCHANGED aborted
    /\ UNCHANGED <<po, gl, cache, useShaderCache, drawer>>

\* ------------------------------------------------------------ the tree drawer
\* CAdvTreeDrawer issues calls on treeShaders[TREE_PROGRAM_BASIC] ("tpb"),
\* treeShaders[TREE_PROGRAM_SHADOW] ("tps") and the shadow handler's tree
\* program ("sgp"). drawer.calls is what is left of the running operation,
\* drawer.enabled the programs it has enabled and not disabled.
Call(line, call, p) == [line |-> line, call |-> call, p |-> p, idx |-> 0]

\* a setter by index
SetCall(line, p, idx) == [line |-> line, call |-> "SetUniform", p |-> p, idx |-> idx]

numUniformNamesNDNA == 6
numUniformNamesNADA == 5

LoadTreeShadersCalls(shadowsSupported) ==
    <<Call(97, "AttachVert", "tpb")>>
    \o (IF shadowsSupported
        THEN <<Call(100, "AttachVert", "tps"), Call(101, "AttachFrag", "tps")>>
        ELSE <<>>)
    \o <<Call(104, "Link", "tpb"), Call(105, "Link", "tps")>>
    \o [k \in 1 .. 2 * numUniformNamesNDNA |->
           IF k % 2 = 1 THEN Call(109, "SetUniformLocation", "tpb")
           ELSE Call(110, "SetUniformLocation", "tps")]
    \o <<Call(114, "SetUniformLocation", "tpb"), Call(115, "SetUniformLocation", "tps")>>
    \o [k \in 1 .. 2 * numUniformNamesNADA |->
           IF k % 2 = 1 THEN Call(119, "SetUniformLocation", "tpb")
           ELSE Call(120, "SetUniformLocation", "tps")]
    \o <<Call(123, "Enable", "tpb"), SetCall(124, "tpb", 3), SetCall(125, "tpb", 4),
         SetCall(126, "tpb", 6),
         Call(127, "Disable", "tpb"), Call(128, "Validate", "tpb"),
         Call(130, "Enable", "tps"), SetCall(131, "tps", 3), SetCall(132, "tps", 4),
         SetCall(133, "tps", 9), SetCall(134, "tps", 10), SetCall(135, "tps", 11),
         Call(136, "Disable", "tps"), Call(137, "Validate", "tps")>>

\* trees is the number of trees GridVisibility hands to DrawQuad
DrawPassCalls(shadowsLoaded, trees) ==
    LET treeShader == IF shadowsLoaded THEN "tps" ELSE "tpb"
    IN  <<Call(268, "Enable", treeShader)>>
        \o (IF shadowsLoaded
            THEN <<SetCall(273, treeShader, 7), SetCall(274, treeShader, 8)>>
            ELSE <<>>)
        \o <<SetCall(285, treeShader, 0), SetCall(286, treeShader, 1),
             SetCall(287, treeShader, 5)>>
        \o [i \in 1 .. trees |-> SetCall(238, treeShader, 2)]
        \o <<SetCall(297, treeShader, 2)>>
        \o (IF shadowsLoaded THEN <<Call(333, "Disable", treeShader)>> ELSE <<>>)

DrawShadowPassCalls(trees) ==
    <<Call(431, "Enable", "sgp"), SetCall(432, "sgp", 1), SetCall(433, "sgp", 2)>>
    \o [i \in 1 .. trees |-> SetCall(395, "sgp", 3)]
    \o <<SetCall(443, "sgp", 3), Call(477, "Disable", "sgp")>>

\* ~CAdvTreeDrawer: ReleaseProgramObjects("[TreeDrawer]") releases the two
\* tree programs
DestructorCalls == <<Call(56, "Release", "tpb"), Call(56, "Release", "tps")>>

Idle == drawer.op = "none" /\ ~aborted /\ ~drawer.destroyed

Begin(op, calls) ==
    /\ drawer' = [drawer EXCEPT !.op = op, !.calls = calls, !.enabled = {}]
    /\ UNCHANGED <<po, gl, cache, useShaderCache, aborted, cso>>

DoDestroy == Idle /\ Begin("~CAdvTreeDrawer", DestructorCalls)

DoLoadTreeShaders ==
    /\ Idle /\ ~drawer.shadersLoaded
    /\ Begin("LoadTreeShaders", LoadTreeShadersCalls(drawer.shadowsSupported))

DoDrawPass(shadowsLoaded, trees) ==
    /\ Idle /\ drawer.shadersLoaded
    /\ shadowsLoaded => drawer.shadowsSupported
    /\ Begin("DrawPass", DrawPassCalls(shadowsLoaded, trees))

DoDrawShadowPass(trees) ==
    /\ Idle /\ drawer.shadersLoaded
    /\ Begin("DrawShadowPass", DrawShadowPassCalls(trees))

NextCall(call) ==
    drawer.op # "none" /\ ~aborted /\ drawer.calls # <<>> /\ drawer.calls[1].call = call

\* the first remaining call has been made with result w
Called(w, enabled) ==
    /\ CommitProgram(drawer.calls[1].p, w)
    /\ drawer' = [drawer EXCEPT !.calls = Tail(@), !.enabled = enabled]

DrawerAttach ==
    \E c \in {"AttachVert", "AttachFrag"} :
        /\ NextCall(c)
        /\ Called([World(drawer.calls[1].p) EXCEPT !.o =
                      AttachShaderObject(@, NewShaderObject(
                          IF c = "AttachVert" THEN "TreeVertProg" ELSE "TreeFragProg",
                          IF drawer.calls[1].p = "tpb" THEN TreeBasic ELSE TreeShadow))],
                  drawer.enabled)

DrawerLink ==
    /\ NextCall("Link")
    /\ \E env \in Envs(FALSE) : Called(Link(World(drawer.calls[1].p), env), drawer.enabled)

DrawerSetUniformLocation ==
    /\ NextCall("SetUniformLocation")
    /\ \E n \in Names :
          Called(SetUniformLocation(World(drawer.calls[1].p), n), drawer.enabled)

DrawerEnable ==
    /\ NextCall("Enable")
    /\ \E env \in Envs(TRUE) :
          Called(Enable(World(drawer.calls[1].p), env),
                 drawer.enabled \cup {drawer.calls[1].p})

DrawerSetUniform ==
    /\ NextCall("SetUniform")
    /\ \E v \in Values :
          Called(SetUniform1i(World(drawer.calls[1].p), drawer.calls[1].idx, v),
                 drawer.enabled)

DrawerDisable ==
    /\ NextCall("Disable")
    /\ Called(Disable(World(drawer.calls[1].p)), drawer.enabled \ {drawer.calls[1].p})

DrawerValidate ==
    /\ NextCall("Validate")
    /\ \E validated \in BOOLEAN :
          Called(Validate(World(drawer.calls[1].p), validated).w, drawer.enabled)

DrawerRelease ==
    /\ NextCall("Release")
    /\ Called(Release(World(drawer.calls[1].p)), drawer.enabled)

DrawerReturn ==
    /\ drawer.op # "none" /\ ~aborted /\ drawer.calls = <<>>
    /\ drawer' = [drawer EXCEPT !.op = "none", !.enabled = {},
                                !.shadersLoaded = @ \/ drawer.op = "LoadTreeShaders",
                                !.destroyed = drawer.op = "~CAdvTreeDrawer"]
    /\ UNCHANGED <<po, gl, cache, useShaderCache, aborted, cso>>

\* ------------------------------------------------------------- falling trees
\* fallPos and speed are kept as multiples of 10^-7 (the resolution of a float
\* near 1); a FallingTree is [id, speed, fallPos] (type, pos and dir do not
\* enter Update)
Unit == 10000000
MaxDirLength == 500
MinSpeed == 100000

TreeIds == 1 .. MaxFalling
DirLengths == {0, 250, MaxDirLength, MaxDirLength + 1}

\* the product of ah * 10^4 + al and bh * 10^4 + bl (values in 0 .. 2 * Unit),
\* rounded down to a multiple of 10^-7; the factors are split at 10^4 so that
\* no partial product leaves 32 bits
MulLimbs(ah, al, bh, bl) ==
    ah * bh * 10 + ((ah * bl + al * bh) + (al * bl) \div 10000) \div 1000

\* a * b in multiples of 10^-7
MulU(a, b) ==
    CHOOSE r \in {MulLimbs(x \div 10000, x % 10000, y \div 10000, y % 10000) :
                      x \in {a}, y \in {b}} : TRUE

\* x - x^3/3! + x^5/5! - x^7/7! + x^9/9! for y = x * x, which is within 10^-7
\* of the sine on [0, pi/2]
SinSeries(x, y) ==
    MulU(x, Unit - MulU(y, Unit - MulU(y, Unit - MulU(y, Unit - y \div 72) \div 42)
                                      \div 20) \div 6)

\* std::sin on [0, pi/2]
Sin(x) == CHOOSE r \in {SinSeries(v, MulU(v, v)) : v \in {x}} : TRUE

\* ft.speed = std::max(0.01f, len * 0.0004f)
InitialSpeed(len) ==
    IF len * 4000 > MinSpeed THEN len * 4000 ELSE MinSpeed

AddFallingTree(trees, treeID, len) ==
    IF len > MaxDirLength THEN trees
    ELSE Append(trees, [id |-> treeID, speed |-> InitialSpeed(len), fallPos |-> 0])

\* speed += std::sin(fallPos) * 0.04f, with fallPos already advanced
Accelerate(ft) == [ft EXCEPT !.speed = @ + (Sin(ft.fallPos) * 4) \div 100]

\* fallPos += speed * 0.1f; speed += std::sin(fallPos) * 0.04f
Advance(ft) ==
    CHOOSE r \in {Accelerate([f EXCEPT !.fallPos = @ + f.speed \div 10]) : f \in {ft}} : TRUE

\* faulty variant of UpdateLoop: n is advanced after a removal as well
RECURSIVE UpdateLoopSkipsSwapped(_, _)
UpdateLoopSkipsSwapped(trees, n) ==
    IF n >= Len(trees) THEN trees
    ELSE LET fti == Advance(trees[n + 1])
         IN  IF fti.fallPos > Unit
             THEN UpdateLoopSkipsSwapped(
                      SubSeq([trees EXCEPT ![n + 1] = trees[Len(trees)]], 1, Len(trees) - 1),
                      n + 1)
             ELSE UpdateLoopSkipsSwapped([trees EXCEPT ![n + 1] = fti], n + 1)

\* the loop of CAdvTreeDrawer::Update from index n (counted from 0)
RECURSIVE UpdateLoop(_, _)
UpdateLoop(trees, n) ==
    IF n >= Len(trees) THEN trees
    ELSE LET fti == Advance(trees[n + 1])
         IN  IF fti.fallPos > Unit
             THEN UpdateLoop(
                      SubSeq([trees EXCEPT ![n + 1] = trees[Len(trees)]], 1, Len(trees) - 1),
                      n)
             ELSE UpdateLoop([trees EXCEPT ![n + 1] = fti], n + 1)

Update(trees) == UpdateLoop(trees, 0)

InList(treeID) ==
    \E i \in DOMAIN drawer.fallingTrees : drawer.fallingTrees[i].id = treeID

\* AddFallingTree called for any tree, in the list or not; the list is kept to
\* MaxFalling entries
DoAddFallingTree(treeID, len) ==
    /\ Len(AddFallingTree(drawer.fallingTrees, treeID, len)) <= MaxFalling
    /\ drawer' = [drawer EXCEPT !.fallingTrees = AddFallingTree(@, treeID, len)]
    /\ UNCHANGED <<po, gl, cache, useShaderCache, aborted, cso>>

DoUpdate ==
    /\ drawer' = [drawer EXCEPT !.fallingTrees = Update(@)]
    /\ UNCHANGED <<po, gl, cache, useShaderCache, aborted, cso>>

\* the UseShaderCache option is read on every Reload and may be changed between
\* two of them
DoSetConfig(b) ==
    /\ ~aborted
    /\ b # useShaderCache
    /\ useShaderCache' = b
    /\ UNCHANGED <<po, gl, cache, aborted, cso, drawer>>

\* what a caller may do with one program object
ProgramStep(p) ==
    \/ \E src \in Sources : DoAttach(p, src, TreeBasic)
    \/ \E f \in FlagVals : DoSetFlag(p, f)
    \/ \E env \in Envs(TRUE) : DoEnable(p, env)
    \/ DoDisable(p)
    \/ \E env \in Envs(FALSE) : DoLink(p, env)
    \/ \E force \in BOOLEAN, validate \in BOOLEAN : \E env \in Envs(validate) :
          DoReload(p, force, validate, env)
    \/ DoRelease(p)

UniformStep(p) ==
    \/ \E n \in Names : DoGetUniformLocation(p, n)
    \/ \E n \in Names : DoSetUniformLocation(p, n)
    \/ \E n \in Names, v \in Values : DoSetUniform(p, n, v)
    \/ \E idx \in 0 .. Len(po[p].uniformLocs) - 1, v \in Values : DoSetUniform1i(p, idx, v)

\* one program object with its uniforms
Next == ProgramStep("tpb") \/ UniformStep("tpb")

Spec == Init /\ [][Next]_vars

\* two program objects sharing the process-wide cache, each given a vertex
\* shader and then a fragment shader with either set of definitions: loading,
\* flag changes and release, without the uniform and binding calls
SharedStep(p) ==
    \/ \E src \in VertSources, defs \in Defines : DoAttach(p, src, defs)
    \/ \E src \in FragSources :
          /\ po[p].shaderObjs # <<>>
          /\ DoAttachNext(p, src, po[p].shaderObjs[1].rawDefStrs)
    \/ \E f \in FlagVals : DoSetFlag(p, f)
    \/ \E env \in Envs(FALSE) : DoLink(p, env)
    \/ DoRelease(p)

NextShared == \E p \in Progs : SharedStep(p)

SpecShared == InitShared /\ [][NextShared]_vars

\* two program objects sharing the process-wide cache and built from one
\* shader object each, with the same definitions, so that equal content meets
\* in the cache
TwinStep(p) ==
    \/ \E src \in Sources : DoAttach(p, src, TreeBasic)
    \/ \E f \in FlagVals : DoSetFlag(p, f)
    \/ \E env \in Envs(FALSE) : DoLink(p, env)
    \/ DoRelease(p)

NextTwins == \E p \in Progs : TwinStep(p)

SpecTwins == InitTwins /\ [][NextTwins]_vars

\* one program object that is loaded, relinked and has its uniforms set through
\* their state, and is not released
ReloadStep(p) ==
    \/ \E src \in Sources : DoAttach(p, src, TreeBasic)
    \/ \E f \in FlagVals : DoSetFlag(p, f)
    \/ \E env \in Envs(TRUE) : DoEnable(p, env)
    \/ DoDisable(p)
    \/ \E env \in Envs(FALSE) : DoLink(p, env)
    \/ \E force \in BOOLEAN, validate \in BOOLEAN : \E env \in Envs(validate) :
          DoReload(p, force, validate, env)
    \/ \E n \in Names : DoGetUniformLocation(p, n)
    \/ \E n \in Names, v \in Values : DoSetUniform(p, n, v)

NextReload == ReloadStep("tpb")

SpecReload == Init /\ [][NextReload]_vars

\* one program object that is loaded and relinked while the UseShaderCache
\* option changes, without its uniforms
CacheStep(p) ==
    \/ \E src \in Sources : DoAttach(p, src, TreeBasic)
    \/ \E f \in FlagVals : DoSetFlag(p, f)
    \/ \E env \in Envs(FALSE) : DoLink(p, env)
    \/ \E force \in BOOLEAN, validate \in BOOLEAN : \E env \in Envs(validate) :
          DoReload(p, force, validate, env)
    \/ \E b \in BOOLEAN : DoSetConfig(b)

NextCache == CacheStep("tpb")

SpecCache == InitCache /\ [][NextCache]_vars

\* one program object that is loaded, given uniform states and texture
\* bindings, used and released
ReleaseStep(p) ==
    \/ \E src \in Sources : DoAttach(p, src, TreeBasic)
    \/ \E f \in FlagVals : DoSetFlag(p, f)
    \/ \E env \in Envs(TRUE) : DoEnable(p, env)
    \/ \E env \in Envs(FALSE) : DoLink(p, env)
    \/ \E n \in Names : DoGetUniformLocation(p, n)
    \/ \E texUnit \in TexUnits, parsed \in BOOLEAN : DoAddTextureBinding(p, texUnit, parsed)
    \/ \E validated \in BOOLEAN : DoValidate(p, validated)
    \/ DoRelease(p)

NextRelease == ReleaseStep("tpb")

SpecRelease == Init /\ [][NextRelease]_vars

\* one program object whose shader source may name a missing file
SourceStep(p) ==
    \/ \E src \in SrcData : DoAttach(p, src, TreeBasic)
    \/ \E f \in FlagVals : DoSetFlag(p, f)
    \/ \E env \in Envs(FALSE) : DoLink(p, env)
    \/ \E force \in BOOLEAN, validate \in BOOLEAN :
          \E env \in Envs(validate) : DoReload(p, force, validate, env)
    \/ \E n \in Names : DoGetUniformLocation(p, n)
    \/ DoRelease(p)

NextSource == SourceStep("tpb")

SpecSource == Init /\ [][NextSource]_vars

\* one shader object with its source text and definitions, compiled once
InitCompile ==
    /\ InitPrograms({"tpb"}, MaxHandle)
    /\ drawer = NoDrawer
    /\ cso \in {[NoShaderText EXCEPT !.srcText = s, !.rawDefStrs = r, !.modDefStrs = d] :
                    s \in TextsUpTo(MaxLen), r \in RawDefs, d \in TextsUpTo(MaxLen - 1)}

NextCompile == DoCreateAndCompileShaderObject

SpecCompile == InitCompile /\ [][NextCompile]_vars

\* the tree drawer: shaders loaded once, then any number of passes
DrawerProgs == Progs \cup {"sgp"}

InitDrawer ==
    /\ po = [p \in DrawerProgs |->
                IF p = "sgp"
                THEN [NewProgram(3) EXCEPT !.uniformLocs = <<"color", "color", "color", "color">>,
                                           !.uniformStates["color"].has = TRUE]
                ELSE NewProgram(IF p = "tpb" THEN 1 ELSE 2)]
    /\ gl = [next |-> 4, max |-> MaxHandleDrawer, full |-> FALSE,
             linked |-> {}, deleted |-> {}, val |-> [h \in Handles |-> 0], cur |-> 0]
    /\ cache = {}
    /\ useShaderCache \in BOOLEAN
    /\ aborted = FALSE
    /\ cso = NoShaderText
    /\ drawer \in {[NoDrawer EXCEPT !.shadowsSupported = b] : b \in BOOLEAN}

NextDrawer ==
    \/ DoLoadTreeShaders
    \/ DoDestroy
    \/ \E shadowsLoaded \in BOOLEAN, trees \in 0 .. MaxTrees : DoDrawPass(shadowsLoaded, trees)
    \/ \E trees \in 0 .. MaxTrees : DoDrawShadowPass(trees)
    \/ DrawerAttach
    \/ DrawerLink
    \/ DrawerSetUniformLocation
    \/ DrawerEnable
    \/ DrawerSetUniform
    \/ DrawerDisable
    \/ DrawerValidate
    \/ DrawerRelease
    \/ DrawerReturn

SpecDrawer == InitDrawer /\ [][NextDrawer]_vars

\* one program object with several shader objects, linked and reloaded
LoadStep(p) ==
    \/ \E src \in Sources : DoAttachNext(p, src, TreeBasic)
    \/ \E env \in Envs(FALSE) : DoLink(p, env)
    \/ \E force \in BOOLEAN, validate \in BOOLEAN :
          \E env \in Envs(validate) : DoReload(p, force, validate, env)

NextLoad == LoadStep("tpb")

SpecLoad == Init /\ [][NextLoad]_vars

\* trees are felled and the drawer is updated every frame
NextFalling ==
    \/ \E treeID \in TreeIds, len \in DirLengths : DoAddFallingTree(treeID, len)
    \/ DoUpdate

SpecFalling == Init /\ [][NextFalling]_vars

\* Update is called every simulation frame
FairFalling == SpecFalling /\ WF_vars(DoUpdate)

\* ---------------------------------------------------------------- properties
AllEnvs == Envs(TRUE)

\* a call the model takes: it did not run out of GL program names
Ran(w) == ~w.gl.full

Resolved(p, n) ==
    /\ po[p].valid
    /\ po[p].bound
    /\ po[p].uniformStates[n].has
    /\ po[p].uniformStates[n].loc # NotFound

ExpectedHash(o) ==
    LET RECURSIVE Fold(_, _)
        Fold(i, h) == IF i > Len(o.shaderObjs) THEN h
                      ELSE Fold(i + 1, BitXor(h, GetHash(o.shaderObjs[i])))
    IN  Fold(1, FlagsHash(o.shaderFlags))

\* C1 as stated: on a bound, valid program whose uniform has a resolved
\* location, two consecutive SetUniform calls with the same value issue
\* exactly one GPU write in total.
C1_SetTwiceWritesExactlyOnce ==
    \A p \in DOMAIN po, n \in Names, v \in Values :
        Resolved(p, n) =>
            SetUniform(SetUniform(World(p), n, v), n, v).tr.writes = 1

\* C1 amended: the first of two consecutive SetUniform calls with the same
\* value writes exactly when the cached value differed from it, the second
\* call writes nothing and changes nothing, and a following call with a
\* different value issues exactly one further write and caches that value.
C1_SetIfChanged ==
    \A p \in DOMAIN po, n \in Names, v \in Values :
        Resolved(p, n) =>
            LET c0 == po[p].uniformStates[n].val
                w1 == SetUniform(World(p), n, v)
                w2 == SetUniform(w1, n, v)
            IN  /\ w1.tr.writes = (IF c0 = v THEN 0 ELSE 1)
                /\ w1.o.uniformStates[n].val = v
                /\ w2 = w1
                /\ \A v2 \in Values \ {v} :
                      LET w3 == SetUniform(w2, n, v2)
                      IN  /\ w3.tr.writes = w2.tr.writes + 1
                          /\ w3.o.uniformStates[n].val = v2

C1_Witness ==
    \E p \in DOMAIN po :
        /\ Resolved(p, "color")
        /\ po[p].uniformStates["color"].val = 1
        /\ gl.cur = po[p].glid
        /\ gl.val[po[p].glid] = 1

\* every entry of the table before is an entry after, with the same cached value
KeepsValues(before, after) ==
    \A n \in Names :
        before.uniformStates[n].has =>
            /\ after.uniformStates[n].has
            /\ after.uniformStates[n].val = before.uniformStates[n].val

\* C2: Reload, and with it Link and Enable, never removes an entry of the
\* uniform-state table and never changes an entry's cached value, so a value
\* set before a relink is still cached after it.
C2_ValuesSurviveReload ==
    \A p \in DOMAIN po, validate \in BOOLEAN :
        \A env \in Envs(validate) :
            /\ \A force \in BOOLEAN :
                   KeepsValues(po[p], Reload(World(p), force, validate, env).o)
            /\ validate => KeepsValues(po[p], Enable(World(p), env).o)
            /\ ~validate => KeepsValues(po[p], Link(World(p), env).o)

\* a uniform was set, the flags changed, and re-enabling relinks into a new
\* program that is valid
C2_Witness ==
    \E p \in DOMAIN po, env \in AllEnvs :
        LET w == Enable(World(p), env)
        IN  /\ po[p].valid
            /\ po[p].shaderFlags.updated
            /\ po[p].uniformStates["color"].val = 1
            /\ Ran(w) /\ w.o.valid /\ w.tr.links = 1
            /\ w.o.glid # po[p].glid
            /\ w.o.uniformStates["color"].val = 1

\* C3: of two consecutive MaybeReload calls with no flag change in between,
\* the second runs no Reload and changes no state, whether the first one
\* succeeded or failed.
C3_MaybeReloadIdempotent ==
    \A p \in DOMAIN po, v1 \in BOOLEAN :
        \A e1 \in Envs(v1) :
            LET w1 == MaybeReload(World(p), v1, e1)
            IN  (Ran(w1) /\ ~w1.ab) =>
                    /\ w1.tr.reloads <= 1
                    /\ \A v2 \in BOOLEAN : \A e2 \in Envs(v2) :
                           MaybeReload(w1, v2, e2) = w1

\* a reload has failed and the flags are unchanged since
C3_Witness ==
    \E p \in DOMAIN po :
        /\ po[p].shaderFlags.hashSet
        /\ ~po[p].shaderFlags.updated
        /\ ~po[p].valid
        /\ po[p].shaderObjs # <<>>
        /\ po[p].log # <<>>

SameContent(p, q) ==
    /\ po[p].shaderFlags.val = po[q].shaderFlags.val
    /\ Len(po[p].shaderObjs) = Len(po[q].shaderObjs)
    /\ \A i \in DOMAIN po[p].shaderObjs :
          /\ po[p].shaderObjs[i].srcData = po[q].shaderObjs[i].srcData
          /\ po[p].shaderObjs[i].rawDefStrs = po[q].shaderObjs[i].rawDefStrs

\* C4 as stated: with UseShaderCache on, linking a second program whose source
\* and flags are those of a program linked before compiles nothing and ends
\* with the first program's handle.
C4_SecondLinkReusesHandle ==
    \A p \in DOMAIN po, q \in DOMAIN po, env \in Envs(FALSE) :
        ( /\ p # q
          /\ useShaderCache
          /\ po[p].valid /\ ~po[p].shaderFlags.updated
          /\ ~po[q].shaderFlags.hashSet
          /\ po[q].shaderObjs # <<>>
          /\ SameContent(p, q)
          /\ Ran(Link(World(q), env)) )
        => LET w == Link(World(q), env)
           IN  w.tr.compiles = 0 /\ w.o.glid = po[p].glid

\* C5 as stated: a program object is never bound while it is invalid.
C5_BoundImpliesValid == \A p \in DOMAIN po : po[p].bound => po[p].valid

\* C6: a setter, by state pointer or by index, reaches the GPU only on a
\* program that is valid and bound; on an unbound program it stops at its
\* assertion and writes nothing.
C6_WritesOnlyWhenValidAndBound ==
    \A p \in DOMAIN po, n \in Names, v \in Values :
        LET w == SetUniform(GetUniformState(World(p), n), n, v)
        IN  /\ w.tr.writes > 0 => (po[p].valid /\ po[p].bound)
            /\ ~po[p].bound => (w.ab /\ w.tr.writes = 0 /\ w.gl = gl)
            /\ \A idx \in 0 .. Len(po[p].uniformLocs) - 1 :
                  LET x == SetUniform1i(World(p), idx, v)
                  IN  /\ x.tr.writes > 0 => (po[p].valid /\ po[p].bound)
                      /\ ~po[p].bound => (x.ab /\ x.tr.writes = 0 /\ x.gl = gl)

\* an invalid program is bound and a setter has cached a value for it
C6_Witness ==
    \E p \in DOMAIN po :
        /\ po[p].bound
        /\ ~po[p].valid
        /\ po[p].uniformStates["color"].val = 1
        /\ po[p].uniformLocs # <<>>

OneBrokenShader(p) ==
    /\ Len(po[p].shaderObjs) = 1
    /\ po[p].shaderObjs[1].srcData = "BrokenProg"

\* C7 as stated: Reload on a program whose one vertex shader fails to compile
\* leaves it invalid, with a non-empty log and with handle 0.
C7_CompileFailureLeavesNoHandle ==
    \A p \in DOMAIN po, force \in BOOLEAN, validate \in BOOLEAN :
      \A env \in Envs(validate) :
        LET w == Reload(World(p), force, validate, env)
        IN  (OneBrokenShader(p) /\ Ran(w)) =>
                (~w.o.valid /\ w.o.log # <<>> /\ w.o.glid = 0)

\* C8 as stated: no two program objects hold the same non-zero handle.
C8_ExclusiveHandles ==
    \A p \in DOMAIN po, q \in DOMAIN po :
        (p # q /\ po[p].glid # 0) => po[p].glid # po[q].glid

\* C9: when Reload asks the cache, it asks for the hash of the flags XORed
\* with the hashes of the attached shader objects as they are after the
\* reload's own update of their definitions and text, and that is the hash the
\* program holds afterwards.
C9_HashIsCurrentAtLookup ==
    \A p \in DOMAIN po, force \in BOOLEAN, validate \in BOOLEAN :
      \A env \in Envs(validate) :
        LET w == Reload(World(p), force, validate, env)
        IN  w.tr.consulted =>
                (w.tr.lookup = ExpectedHash(w.o) /\ w.o.hash = ExpectedHash(w.o))

\* a valid program with changed flags: the coming Reload consults the cache
C9_Witness ==
    \E p \in DOMAIN po, env \in AllEnvs :
        LET w == Reload(World(p), FALSE, TRUE, env)
        IN  /\ po[p].valid
            /\ po[p].shaderFlags.updated
            /\ cache # {}
            /\ Ran(w) /\ w.tr.consulted
            /\ w.o.hash # po[p].hash

\* C10: Reload starts by giving every uniform state the not-found location,
\* and after a Reload that leaves the program invalid every location is still
\* not-found.
C10_ReloadInvalidatesLocations ==
    \A p \in DOMAIN po, force \in BOOLEAN, validate \in BOOLEAN :
      \A env \in Envs(validate) :
        LET w == Reload(World(p), force, validate, env)
        IN  /\ \A n \in Names : ReloadState(po[p], force).o.uniformStates[n].loc = NotFound
            /\ ~w.o.valid => \A n \in Names : w.o.uniformStates[n].loc = NotFound

\* a resolved location, and a Reload that fails at the link
C10_Witness ==
    \E p \in DOMAIN po, env \in AllEnvs :
        LET w == Reload(World(p), TRUE, TRUE, env)
        IN  /\ Resolved(p, "color")
            /\ Ran(w) /\ ~w.ab /\ ~w.o.valid
            /\ w.tr.links = 1

\* after w, every uniform state of the table is resolved against the program's
\* handle, and where the location is found the GPU holds the cached value
CopiedTo(w) ==
    \A n \in Names :
        w.o.uniformStates[n].has =>
            /\ w.o.uniformStates[n].loc = glGetUniformLocation(w.gl, w.o.glid, n)
            /\ (w.o.uniformStates[n].loc # NotFound /\ w.o.uniformStates[n].val # Uninit)
                  => w.gl.val[w.o.glid] = w.o.uniformStates[n].val

\* C11 as stated: after every Reload that leaves the program valid, through
\* Link (validate = false) or Enable (validate = true), first load or later,
\* every uniform state of the table is re-resolved against the new handle and
\* the GPU holds the cached value of each uniform that is found.
C11_ValidReloadResolvesUniforms ==
    \A p \in DOMAIN po :
        /\ \A env \in Envs(FALSE) :
              LET w == Link(World(p), env)
              IN  (Ran(w) /\ ~w.ab /\ w.tr.reloads = 1 /\ w.o.valid) => CopiedTo(w)
        /\ \A env \in Envs(TRUE) :
              LET w == Enable(World(p), env)
              IN  (Ran(w) /\ ~w.ab /\ w.tr.reloads = 1 /\ w.o.valid) => CopiedTo(w)

\* C12 as stated: after a successful Reload with caching enabled, the cache
\* maps the program's new hash to its newly linked handle (Find(new hash)
\* returns the handle the program holds).
C12_CacheMapsNewHash ==
    \A p \in DOMAIN po, force \in BOOLEAN, validate \in BOOLEAN :
      \A env \in Envs(validate) :
        LET w == Reload(World(p), force, validate, env)
        IN  (useShaderCache /\ Ran(w) /\ ~w.ab /\ w.o.valid) =>
                Find(w.cache, w.o.hash) = w.o.glid

\* C13 as stated: when Reload runs on a program with at least one shader
\* object, caching is enabled and the cache holds a handle for the program's
\* new hash, the program gets that handle and nothing is compiled or linked,
\* whether or not the program was valid before.
C13_CacheHitSkipsCompile ==
    \A p \in DOMAIN po, force \in BOOLEAN, validate \in BOOLEAN :
      \A env \in Envs(validate) :
        LET w == Reload(World(p), force, validate, env)
            cached == Find(cache, w.o.hash)
        IN  ( /\ useShaderCache
              /\ po[p].shaderObjs # <<>>
              /\ Ran(w) /\ ~w.ab
              /\ cached # 0 )
            => (w.o.glid = cached /\ w.tr.compiles = 0 /\ w.tr.links = 0)

AllCompile(sos) == \A i \in DOMAIN sos : CompileOK(GetShaderSource(sos[i].srcData))

\* C14: with UseShaderCache disabled, a Reload of a program with at least one
\* shader object creates a new GL program, compiles every shader object and,
\* when they all compile, links; it does not ask the cache and leaves the
\* cache as it was.
C14_NoCacheWhenDisabled ==
    \A p \in DOMAIN po, force \in BOOLEAN, validate \in BOOLEAN :
      \A env \in Envs(validate) :
        LET w == Reload(World(p), force, validate, env)
        IN  (~useShaderCache /\ po[p].shaderObjs # <<>> /\ Ran(w) /\ ~w.ab) =>
                /\ w.o.glid = gl.next
                /\ ~glIsProgram(gl, w.o.glid) /\ glIsProgram(w.gl, w.o.glid)
                /\ w.tr.compiles = Len(po[p].shaderObjs)
                /\ w.tr.links = (IF AllCompile(po[p].shaderObjs) THEN 1 ELSE 0)
                /\ ~w.tr.consulted
                /\ w.cache = cache

\* the option is off, the program is valid with changed flags, and the cache
\* holds a handle for the hash the next Reload computes
C14_Witness ==
    \E p \in DOMAIN po, env \in Envs(TRUE) :
        LET w == Reload(World(p), FALSE, TRUE, env)
        IN  /\ ~useShaderCache
            /\ po[p].valid
            /\ po[p].shaderFlags.updated
            /\ Find(cache, w.o.hash) # 0
            /\ Ran(w) /\ w.o.valid /\ w.tr.links = 1

\* C15 as stated: after a Reload whose compile and link succeed, or whose
\* handle comes from the cache, the program is valid whether or not validation
\* was requested and whatever glValidateProgram reported, and a validation
\* failure does nothing but append to the log.
C15_ValidationOnlyLogs ==
    \A p \in DOMAIN po, force \in BOOLEAN, linkOK \in BOOLEAN :
        LET passed == Reload(World(p), force, TRUE, [linkOK |-> linkOK, validated |-> TRUE])
            failed == Reload(World(p), force, TRUE, [linkOK |-> linkOK, validated |-> FALSE])
            without == Reload(World(p), force, FALSE, [linkOK |-> linkOK, validated |-> TRUE])
        IN  (Ran(passed) /\ ~passed.ab /\ passed.o.valid) =>
                /\ failed.o.valid
                /\ without.o.valid
                /\ failed.o.log = Append(passed.o.log, "validate")
                /\ [failed EXCEPT !.o.log = passed.o.log] = passed

\* C16: after Release, from any state, the program's handle is 0 and the
\* handle it held is no GL program any more, its hash is 0, it is neither valid
\* nor bound, its uniform states, shader objects, texture bindings and log are
\* empty, and its flags are cleared, so that the next MaybeReload runs Reload
\* as a first reload.
C16_ReleasePostcondition ==
    \A p \in DOMAIN po :
        LET rel == Release(World(p))
        IN  /\ rel.o.glid = 0
            /\ ~glIsProgram(rel.gl, po[p].glid)
            /\ glIsProgram(gl, po[p].glid) => po[p].glid \in rel.gl.deleted
            /\ rel.o.hash = 0
            /\ ~rel.o.valid /\ ~rel.o.bound
            /\ \A n \in Names : ~rel.o.uniformStates[n].has
            /\ rel.o.shaderObjs = <<>>
            /\ rel.o.luaTextures = {}
            /\ rel.o.log = <<>>
            /\ rel.o.shaderFlags = NewFlags
            /\ ~rel.ab
            /\ \A validate \in BOOLEAN : \A env \in Envs(validate) :
                  MaybeReload(rel, validate, env) = Reload(rel, TRUE, validate, env)

\* a valid, bound program with a uniform state, a texture binding and a log
C16_Witness ==
    \E p \in DOMAIN po :
        /\ po[p].valid /\ po[p].bound
        /\ po[p].uniformStates["color"].has
        /\ po[p].luaTextures # {}
        /\ po[p].log # <<>>
        /\ po[p].shaderFlags.val = 1
        /\ glIsProgram(gl, po[p].glid)
        /\ po[p].glid \in Release(World(p)).gl.deleted

\* C17 as stated: when a shader object's source names a file that does not
\* exist, ReloadFromTextOrFile leaves its text empty and the following Reload
\* runs to completion without a failed assertion and leaves the program
\* invalid.
C17_MissingSourceIsNonFatal ==
    \A p \in DOMAIN po, force \in BOOLEAN, validate \in BOOLEAN :
        \A env \in Envs(validate) :
            (/\ Len(po[p].shaderObjs) = 1
             /\ po[p].shaderObjs[1].srcData = "MissingProg")
            => LET w == Reload(World(p), force, validate, env)
               IN  /\ ReloadFromTextOrFile(po[p].shaderObjs[1]).srcText = ""
                   /\ Ran(w) => ~w.ab /\ ~w.o.valid

\* the first version directive of a text: from "#version " to the end of its
\* line, and the text without it
HasDirective(t) == \E i \in DOMAIN t : t[i] = "V"

DirectiveStart(t) == CHOOSE i \in DOMAIN t : t[i] = "V" /\ \A j \in 1 .. i - 1 : t[j] # "V"

DirectiveEnd(t) ==
    LET s == DirectiveStart(t)
    IN  IF \E i \in s .. Len(t) : t[i] = "N"
        THEN CHOOSE i \in s .. Len(t) : t[i] = "N" /\ \A j \in s .. i - 1 : t[j] # "N"
        ELSE Len(t)

Directive(t) == SubSeq(t, DirectiveStart(t), DirectiveEnd(t))

WithoutDirective(t) == SubSeq(t, 1, DirectiveStart(t) - 1) \o SubSeq(t, DirectiveEnd(t) + 1, Len(t))

AsLine(t) == IF t = <<>> \/ t[Len(t)] = "N" THEN t ELSE t \o <<"N">>

Definitions(c) == c.rawDefStrs \o <<"N">> \o c.modDefStrs

\* C18 as stated: when both the source and the definitions contain a #version
\* directive the version line of the assembled source is the one of the
\* definitions; when only one contains a directive that one is used; the
\* extracted directive is removed from the text it came from.
C18_VersionDirectivePrecedence ==
    cso.compiled =>
        LET src == cso.srcText
            defs == Definitions(cso)
            out == cso.sources
        IN  /\ HasDirective(defs) => out.versionStr = AsLine(Directive(defs))
            /\ HasDirective(src) /\ ~HasDirective(defs)
                  => out.versionStr = AsLine(Directive(src))
            /\ HasDirective(src) => out.sourceStr = WithoutDirective(src)
            /\ HasDirective(defs) => out.defFlags = AsLine(WithoutDirective(defs))

\* C19 as stated: in LoadTreeShaders, DrawPass and DrawShadowPass every uniform
\* write on a program comes after an Enable() of that program, and every
\* Enable() is followed by a Disable() of the same program before the
\* operation returns, with shadows loaded and with shadows not loaded.
C19_DrawerEnablesAndDisables ==
    drawer.op # "none" =>
        /\ (drawer.calls # <<>> /\ drawer.calls[1].call = "SetUniform")
              => drawer.calls[1].p \in drawer.enabled
        /\ drawer.calls = <<>> => drawer.enabled = {}

\* C20: Reload on a program with no shader objects marks it invalid and
\* returns without compiling, linking, consulting or updating the cache, or
\* deleting or creating any handle; the GL state that the other program objects
\* live in and the cache are unchanged.
C20_EmptyProgramReload ==
    \A p \in DOMAIN po, force \in BOOLEAN, validate \in BOOLEAN :
        \A env \in Envs(validate) :
            po[p].shaderObjs = <<>>
            => LET w == Reload(World(p), force, validate, env)
               IN  /\ ~w.ab
                   /\ ~w.o.valid
                   /\ w.o.glid = po[p].glid
                   /\ w.tr.compiles = 0 /\ w.tr.links = 0
                   /\ ~w.tr.consulted
                   /\ w.cache = cache
                   /\ w.gl = gl

\* an empty program that still holds a GL program, next to a valid program and
\* a non-empty cache, is reloaded
C20_Witness ==
    \E p \in DOMAIN po, q \in DOMAIN po :
        /\ p # q
        /\ po[p].shaderObjs = <<>>
        /\ glIsProgram(gl, po[p].glid)
        /\ po[q].valid
        /\ cache # {}
        /\ ~Reload(World(p), TRUE, FALSE, [linkOK |-> TRUE, validated |-> TRUE]).o.valid

\* the three strings a shader object is hashed over
SameStrings(so1, so2) ==
    /\ so1.srcText = so2.srcText
    /\ so1.modDefStrs = so2.modDefStrs
    /\ so1.rawDefStrs = so2.rawDefStrs

\* C21: two shader objects equal in source text, modifiable definitions and
\* raw definitions have equal hashes, and two programs with content-identical
\* shader objects and flags get equal program hashes from
\* RecalculateShaderHash.
C21_HashDeterminism ==
    \A p \in DOMAIN po, q \in DOMAIN po :
        /\ \A i \in DOMAIN po[p].shaderObjs, j \in DOMAIN po[q].shaderObjs :
              SameStrings(po[p].shaderObjs[i], po[q].shaderObjs[j])
              => GetHash(po[p].shaderObjs[i]) = GetHash(po[q].shaderObjs[j])
        /\ (/\ po[p].shaderFlags.val = po[q].shaderFlags.val
            /\ Len(po[p].shaderObjs) = Len(po[q].shaderObjs)
            /\ \A i \in DOMAIN po[p].shaderObjs :
                  SameStrings(po[p].shaderObjs[i], po[q].shaderObjs[i]))
           => RecalculateShaderHash(po[p]).hash = RecalculateShaderHash(po[q]).hash

\* two programs with their own GL programs were reloaded from the same source
\* and flags and hold the same hash
C21_Witness ==
    \E p \in DOMAIN po, q \in DOMAIN po :
        /\ p # q
        /\ po[p].glid # po[q].glid
        /\ po[p].valid /\ po[q].valid
        /\ po[p].shaderObjs # <<>>
        /\ Len(po[p].shaderObjs) = Len(po[q].shaderObjs)
        /\ \A i \in DOMAIN po[p].shaderObjs :
              SameStrings(po[p].shaderObjs[i], po[q].shaderObjs[i])
        /\ po[p].shaderFlags.val = po[q].shaderFlags.val
        /\ po[p].hash = RecalculateShaderHash(po[p]).hash
        /\ po[p].hash = po[q].hash

\* C22 as stated: a handle that has been passed to glDeleteProgram is neither
\* the handle of a valid program object nor the value of a cache entry.
C22_NoUseAfterDelete ==
    \A h \in gl.deleted :
        /\ \A p \in DOMAIN po : po[p].valid => po[p].glid # h
        /\ \A e \in cache : e.id # h

\* the GL programs that exist in g
LivePrograms(g) == {h \in 1 .. (g.next - 1) : h \notin g.deleted}

\* C23 as stated: after every Reload each GL program that was created and not
\* deleted is the handle of some program object or the value of a cache entry;
\* in particular the pre-reload handle is then still held by the program,
\* stored in the cache, or deleted.
C23_NoOrphanedHandle ==
    \A p \in DOMAIN po, force \in BOOLEAN, validate \in BOOLEAN :
      \A env \in Envs(validate) :
        LET w == Reload(World(p), force, validate, env)
            held == {w.o.glid} \cup {po[q].glid : q \in DOMAIN po \ {p}}
                        \cup {e.id : e \in w.cache}
        IN  (Ran(w) /\ ~w.ab) =>
                /\ LivePrograms(w.gl) \subseteq held
                /\ po[p].glid \in LivePrograms(w.gl) => po[p].glid \in held

\* the shader objects of sos that fail to compile, once their text is loaded
Failing(sos) == {i \in DOMAIN sos : ~CompileOK(GetShaderSource(sos[i].srcData))}

\* C24: CreateAndLink, as Reload calls it, compiles every attached shader
\* object even after one of them failed, appends one diagnostic per failing
\* shader to the log, attaches exactly the shaders that compiled, and returns
\* failure without linking if at least one failed.
C24_CompileFailuresDoNotStopThePass ==
    \A p \in DOMAIN po : \A env \in Envs(FALSE) :
        LET sos == po[p].shaderObjs
            rs == ReloadState(po[p], TRUE)
            r == CreateAndLink([World(p) EXCEPT !.o = [rs.o EXCEPT !.glid = 0]], env)
            bad == Failing(sos)
        IN  Ran(r.w) =>
                /\ ~r.w.ab
                /\ r.w.tr.compiles = Len(sos)
                /\ Len(SelectSeq(r.w.o.log, LAMBDA l : l = "compile")) = Cardinality(bad)
                /\ Len(r.w.tr.attached) = Len(sos) - Cardinality(bad)
                /\ \A k \in DOMAIN r.w.tr.attached :
                      /\ r.w.tr.attached[k] \in DOMAIN sos \ bad
                      /\ \A j \in 1 .. k - 1 : r.w.tr.attached[j] < r.w.tr.attached[k]
                /\ bad # {} => (~r.ok /\ r.w.tr.links = 0)
                /\ bad = {} => r.w.tr.links = 1

\* a program whose first shader fails and whose second compiles has been
\* reloaded: it is invalid and its log holds the one diagnostic
C24_Witness ==
    \E p \in DOMAIN po :
        /\ Len(po[p].shaderObjs) = 2
        /\ Failing(po[p].shaderObjs) = {1}
        /\ po[p].shaderObjs[2].srcText # ""
        /\ ~po[p].valid
        /\ po[p].log = <<"compile">>
        /\ glIsProgram(gl, po[p].glid)

\* C25: Enable runs MaybeReload(validate = true) first, then makes the
\* program's handle current and marks the program bound, so the handle given
\* to glUseProgram is the one the program holds after the reload; Link runs
\* MaybeReload(validate = false).
C25_LazyReloadComesFirst ==
    \A p \in DOMAIN po :
        /\ \A env \in Envs(TRUE) :
              LET r == MaybeReload(World(p), TRUE, env)
                  e == Enable(World(p), env)
              IN  (Ran(e) /\ ~e.ab) =>
                      /\ r.o.bound = po[p].bound
                      /\ e.o = [r.o EXCEPT !.bound = TRUE]
                      /\ e.gl = glUseProgram(r.gl, r.o.glid)
                      /\ e.gl.cur # gl.cur => e.gl.cur \in {0, r.o.glid}
                      /\ e.cache = r.cache /\ e.tr = r.tr
        /\ \A env \in Envs(FALSE) :
              LET r == MaybeReload(World(p), FALSE, env)
                  l == Link(World(p), env)
              IN  (Ran(l) /\ ~l.ab) => l = r

\* a valid program whose flags changed is enabled: the reload gives it a new
\* handle, and that handle is the current one afterwards
C25_Witness ==
    \E p \in DOMAIN po : \E env \in Envs(TRUE) :
        LET e == Enable(World(p), env)
        IN  /\ po[p].valid /\ po[p].shaderFlags.updated
            /\ e.tr.reloads = 1
            /\ e.o.valid /\ e.o.bound
            /\ e.o.glid # po[p].glid
            /\ e.gl.cur = e.o.glid
            /\ gl.cur # e.o.glid

\* C26 as stated: index i of an index-based setter denotes the name given to
\* the i-th SetUniformLocation call (from 0); the setter looks up or lazily
\* creates that name's state and applies set-if-changed to it, as the setter
\* by name does; Reload leaves the index-to-name mapping as it is.
C26_IndexSettersUseNamedState ==
    \A p \in DOMAIN po, v \in Values :
        \A idx \in 0 .. Len(po[p].uniformLocs) - 1 :
            LET name == po[p].uniformLocs[idx + 1]
                byIndex == SetUniform1i(World(p), idx, v)
                byName == SetUniform(GetUniformState(World(p), name), name, v)
            IN  /\ byIndex.o = byName.o
                /\ byIndex.gl = byName.gl
                /\ byIndex.ab = byName.ab
                /\ byIndex.tr.writes = byName.tr.writes
                /\ \A force \in BOOLEAN, validate \in BOOLEAN : \A env \in Envs(validate) :
                      Reload(World(p), force, validate, env).o.uniformLocs = po[p].uniformLocs

\* a text without the three comment lines the assembly puts in
WithoutComments(t) == SelectSeq(t, LAMBDA c : c \notin {"//V", "//F", "//S"})

\* C27 as stated: the text given to the compiler is, in this order, the version
\* line (empty when there is no directive), the definitions (raw, then
\* modifiable), the line "#line 1" and the source without its version
\* directive; the version line and the definitions end with a line feed when
\* they are not empty.
C27_AssembledSourceOrder ==
    cso.compiled =>
        LET src == cso.srcText
            defs == Definitions(cso)
            version == IF HasDirective(defs) THEN AsLine(Directive(defs))
                       ELSE IF HasDirective(src) THEN AsLine(Directive(src))
                       ELSE <<>>
            flags == AsLine(IF HasDirective(defs) THEN WithoutDirective(defs) ELSE defs)
            source == IF HasDirective(src) THEN WithoutDirective(src) ELSE src
        IN  WithoutComments(cso.glsl) = version \o flags \o <<"L">> \o source

\* C28 as stated: a program object holds handle 0 whenever it is unlinked; it
\* is created with handle 0, and its handle is non-zero only when it names a
\* successfully linked GL program.
C28_UnlinkedMeansNoHandle ==
    \A p \in DOMAIN po : po[p].glid # 0 => glslIsValid(gl, po[p].glid).ok

\* what one Update call has to make of the list: every tree advanced once,
\* and the trees whose fallPos then exceeds 1 taken out
AdvancedOnce(trees) ==
    SelectSeq([i \in DOMAIN trees |-> Advance(trees[i])], LAMBDA ft : ft.fallPos <= Unit)

Count(trees, ft) == Cardinality({i \in DOMAIN trees : trees[i] = ft})

\* every listed tree has not passed 1, keeps at least the speed 0.01 and so
\* moves on by at least 0.001 in every Update, which bounds the number of Update
\* calls it stays for; one Update advances every tree exactly once and removes
\* exactly the trees that pass 1, whatever removals happen during the pass
\* (equal entries are counted)
C29_UpdatePass ==
    LET trees == drawer.fallingTrees
        after == Update(trees)
        once == AdvancedOnce(trees)
    IN  /\ \A i \in DOMAIN trees :
              /\ trees[i].fallPos \in 0 .. Unit
              /\ trees[i].speed >= MinSpeed
              /\ Advance(trees[i]).speed >= trees[i].speed
              /\ Advance(trees[i]).fallPos >= trees[i].fallPos + MinSpeed \div 10
        /\ Len(after) = Len(once)
        /\ \A i \in DOMAIN once : Count(after, once[i]) = Count(once, once[i])

\* AddFallingTree accepts a tree with this id
Accepts(treeID) ==
    \E len \in DirLengths : len <= MaxDirLength /\ DoAddFallingTree(treeID, len)

====
